---- MODULE Spec2Model ----
(***************************************************************************)
(* A model of scripts/fetch_from_manifest.py: the batched JSON-RPC client  *)
(* (RPCClient), its block-hash cache, the retrying fetcher and the         *)
(* parallel orchestrator.                                                  *)
(*                                                                         *)
(* Python values are modelled as strings: "None" is Python's None, "" is   *)
(* the empty string (a value that is present but falsy), every other       *)
(* string is a truthy value.                                               *)
(***************************************************************************)
EXTENDS Integers, Sequences, FiniteSets, TLC

VARIABLES
  bc,                \* SpecBatch: one call of batch_call
  block_hash_cache,  \* RPCClient.block_hash_cache: block number -> hash
  cache_lock,        \* RPCClient.cache_lock: 0 when free, else the holder
  th,                \* per thread: position in the code and its locals
  srv,               \* the endpoint: free, or a fixed table of answers
  orch,              \* main and fetch_blocks_parallel: chunks, futures, lists
  hist,              \* history: what finished calls returned
  ep,                \* endpoints, current_idx and the constructor's probing
  conn,              \* thread_local.connections of every thread, and _raw_call
  meta               \* one call of get_metadata_at_version

vars ==
  <<bc, block_hash_cache, cache_lock, th, srv, orch, hist, ep, conn,
    meta>>

\* ------------------------------------------------------------------ bounds
\* Longest call list handed to batch_call in SpecBatch.
MaxCalls == 3
\* Longest array response in SpecBatch.
MaxItems == 3
\* Block numbers are 1..MaxBlock.
MaxBlock == 2

\* Longest list of candidate endpoints.
MaxEndpoints == 2
\* Calls sent after construction in SpecEndpoint.
MaxSends == 2

\* Calls of _raw_call in SpecConn.
MaxRawCalls == 3

\* Calls of one batch a flaky endpoint leaves without result.
MaxDropped == 1

\* Characters of a state_call answer after its length tag.
MaxRest == 8

\* --------------------------------------------------------- program constants
MAX_WORKERS == 2
BATCH_SIZE == 4
MAX_RETRIES == 3
RETRY_DELAY == 1

\* ------------------------------------------------------------------ values
None == "None"

\* Python truthiness of a decoded JSON value (`if result:`).
Truthy(v) == v # None /\ v # ""

SeqsUpTo(S, n) == UNION {[1..k -> S] : k \in 0..n}

\* ------------------------------------------------- responses of _raw_call
\* What _raw_call hands back: None, a decoded object, or a decoded array.
RawNone == [t |-> "none", items |-> <<>>, hasresult |-> FALSE, result |-> None]
RawObj(r) == [t |-> "dict", items |-> <<>>, hasresult |-> TRUE, result |-> r]
RawDict == [t |-> "dict", items |-> <<>>, hasresult |-> FALSE, result |-> None]
RawList(items) ==
  [t |-> "list", items |-> items, hasresult |-> FALSE, result |-> None]

\* One item of a decoded array. idtype is the JSON type of its "id".
NonDictItem ==
  [isdict |-> FALSE, hasid |-> FALSE, idtype |-> "none", id |-> 0,
   hasresult |-> FALSE, result |-> None]
NoIdItem(r) ==
  [isdict |-> TRUE, hasid |-> FALSE, idtype |-> "none", id |-> 0,
   hasresult |-> TRUE, result |-> r]
BadIdItem(ty, r) ==
  [isdict |-> TRUE, hasid |-> TRUE, idtype |-> ty, id |-> 0,
   hasresult |-> TRUE, result |-> r]
IdItem(i, r) ==
  [isdict |-> TRUE, hasid |-> TRUE, idtype |-> "int", id |-> i,
   hasresult |-> TRUE, result |-> r]
NoResultItem(i) ==
  [isdict |-> TRUE, hasid |-> TRUE, idtype |-> "int", id |-> i,
   hasresult |-> FALSE, result |-> None]

\* item.get("result")
ItemGet(item) == IF item.hasresult THEN item.result ELSE None

\* ---------------------------------------------------------------- batch_call
\* The loop of lines 175-179 with `results` slots filled by position in the
\* response instead of by id.
RECURSIVE batch_loop_positional(_, _, _)
batch_loop_positional(items, results, n) ==
  IF items = <<>> THEN [raised |-> FALSE, results |-> results]
  ELSE LET k == Len(results) - Len(items) + 1 IN
       IF k >= 1 /\ k <= n
       THEN batch_loop_positional(Tail(items),
                                  [results EXCEPT ![k] = ItemGet(Head(items))], n)
       ELSE batch_loop_positional(Tail(items), results, n)

\* for item in result: ... (lines 175-179). `0 <= idx < len(calls)` raises
\* TypeError when idx is None or a string.
RECURSIVE batch_loop(_, _, _)
batch_loop(items, results, n) ==
  IF items = <<>> THEN [raised |-> FALSE, results |-> results]
  ELSE LET item == Head(items) IN
       IF item.isdict /\ item.hasid
       THEN IF item.idtype # "int"
            THEN [raised |-> TRUE, results |-> <<>>]
            ELSE IF 0 <= item.id /\ item.id < n
                 THEN batch_loop(Tail(items),
                                 [results EXCEPT ![item.id + 1] = ItemGet(item)], n)
                 ELSE batch_loop(Tail(items), results, n)
       ELSE batch_loop(Tail(items), results, n)

AllNone(n) == [i \in 1..n |-> None]

\* `if not result` (line 168): None, {} and [] are falsy.
RawFalsy(raw) == raw.t = "none" \/ (raw.t = "list" /\ raw.items = <<>>)

\* Lines 168-172 raising for a response that is not an array.
batch_call_response_strict(n, raw) ==
  IF raw.t = "list" THEN batch_loop(raw.items, AllNone(n), n)
  ELSE [raised |-> TRUE, results |-> <<>>]

\* batch_call after the request was sent: lines 168-180.
batch_call_response(n, raw) ==
  IF RawFalsy(raw) THEN [raised |-> FALSE, results |-> AllNone(n)]
  ELSE IF raw.t = "dict" THEN [raised |-> FALSE, results |-> AllNone(n)]
  ELSE batch_loop(raw.items, AllNone(n), n)

\* batch_call (lines 151-180): `sent` tells whether _raw_call was reached.
batch_call(calls, raw) ==
  IF calls = <<>>
  THEN [raised |-> FALSE, results |-> <<>>, sent |-> FALSE]
  ELSE LET r == batch_call_response(Len(calls), raw) IN
       [raised |-> r.raised, results |-> r.results, sent |-> TRUE]

\* call (lines 137-149): the "result" member of a truthy decoded object.
call(raw) ==
  IF ~RawFalsy(raw) /\ raw.t = "dict" /\ raw.hasresult THEN raw.result ELSE None

\* ------------------------------------------- _find_working_endpoint, endpoint
\* Decoded bodies that are neither an object nor an array: a true or non-zero
\* number, and a non-empty string (hasresult: "result" is a substring of it).
RawScalar == [t |-> "scalar", items |-> <<>>, hasresult |-> FALSE, result |-> None]
RawText(hasresult) ==
  [t |-> "str", items |-> <<>>, hasresult |-> hasresult, result |-> None]

\* line 127: `if result and "result" in result`. `in` is membership of a key
\* for a dict, of an element for a list, of a substring for a string, and
\* raises TypeError for a number or a boolean.
ProbeTest(raw) ==
  IF RawFalsy(raw) THEN "skip"
  ELSE IF raw.t = "scalar" THEN "raise"
  ELSE IF raw.t \in {"dict", "str"} /\ raw.hasresult THEN "pin"
  ELSE "skip"

\* The property `endpoint` (lines 133-135), with Python's indices from 0.
endpoint == ep.endpoints[ep.current_idx + 1]

\* RPCClient(endpoints) is entered: lines 51-57, the loop of line 119 starts.
Construct ==
  /\ ep.pc = "new"
  /\ ep' = [ep EXCEPT !.pc = "probing", !.i = 0, !.current_idx = 0]
  /\ UNCHANGED <<bc, block_hash_cache, cache_lock, th, srv, orch, hist, conn,
                 meta>>

\* One iteration of the loop of lines 119-130, or line 131 after the last.
Probe ==
  /\ ep.pc = "probing"
  /\ ep' = IF ep.i >= Len(ep.endpoints)
           THEN [ep EXCEPT !.pc = "failed", !.cause = "none_working"]
           ELSE LET test == ProbeTest(ep.answers[ep.i + 1]) IN
                CASE test = "pin" ->
                       [ep EXCEPT !.pc = "ready", !.current_idx = ep.i,
                                  !.pinned = ep.i]
                  [] test = "raise" ->
                       [ep EXCEPT !.pc = "failed", !.cause = "type_error"]
                  [] OTHER -> [ep EXCEPT !.i = ep.i + 1]
  /\ UNCHANGED <<bc, block_hash_cache, cache_lock, th, srv, orch, hist, conn,
                 meta>>

\* call (line 146) or batch_call (line 166) sends its request to
\* self.endpoint; whether the request fails changes nothing of the client.
ClientCall ==
  /\ ep.pc = "ready"
  /\ ep.sends < MaxSends
  /\ \E fails \in BOOLEAN :
       ep' = [ep EXCEPT !.sends = ep.sends + 1,
                        !.sentto = ep.sentto \cup {endpoint},
                        !.failed = ep.failed \/ fails]
  /\ UNCHANGED <<bc, block_hash_cache, cache_lock, th, srv, orch, hist, conn,
                 meta>>

\* ------------------------------------------------------------ the endpoint
Blocks == 1..MaxBlock
Threads == 1..MAX_WORKERS
Hashes == {"ha", "hb"}

\* Results a free endpoint may give per call of each method; srv.hashres are
\* those of chain_getBlockHash. "badblk" is a truthy block result without the
\* "block" member.
MethodResults(method) ==
  CASE method = "chain_getBlockHash" -> srv.hashres
    [] method = "chain_getBlock" -> {None, "blk", "badblk"}
    [] OTHER -> {None, "ev"}

\* The answer of a fixed endpoint to one call.
FixedAnswer(method, param) ==
  CASE method = "chain_getBlockHash" -> srv.hash[param]
    [] method = "chain_getBlock" -> srv.block[param]
    [] OTHER -> srv.ev[param]

\* What _raw_call may hand back for a batch of `method` calls on `params`: a
\* fixed endpoint answers every call; a flaky one fails the whole batch, or
\* answers a malformed item, or leaves up to MaxDropped calls without result;
\* a free one answers every call as it likes.
ServerBatch(method, params) ==
  IF srv.mode = "fixed"
  THEN {RawList([i \in 1..Len(params) |->
                   IdItem(i - 1, FixedAnswer(method, params[i]))])}
  ELSE IF srv.mode \in {"flaky", "lossy"}
  THEN {RawNone, RawDict, RawList(<<BadIdItem("null", None)>>)}
       \cup {RawList([i \in 1..Len(params) |->
                       IdItem(i - 1, IF i \in dropped THEN None
                                     ELSE FixedAnswer(method, params[i]))]) :
               dropped \in {d \in SUBSET (1..Len(params)) :
                              Cardinality(d) <= IF srv.mode = "flaky"
                                                THEN MaxDropped ELSE 0}}
  ELSE {RawNone, RawDict, RawList(<<BadIdItem("null", None)>>)}
       \cup {RawList([i \in 1..Len(params) |-> IdItem(i - 1, f[i])]) :
               f \in [1..Len(params) -> MethodResults(method)]}

\* What _raw_call may hand back for the single call chain_getBlockHash(n).
ServerSingle(n) ==
  IF srv.mode = "fixed"
  THEN {RawObj(srv.hash[n])}
  ELSE {RawNone, RawDict} \cup {RawObj(r) : r \in MethodResults("chain_getBlockHash")}

\* How one batch went: "fail" when _raw_call gave no array, "ok" when every
\* call got a well-formed truthy result, else "mixed".
CallClass(raw, n) ==
  IF raw.t # "list" THEN "fail"
  ELSE IF /\ Len(raw.items) = n
          /\ \A i \in 1..n :
               /\ raw.items[i] = IdItem(i - 1, raw.items[i].result)
               /\ Truthy(raw.items[i].result)
               /\ raw.items[i].result # "badblk"
       THEN "ok" ELSE "mixed"

\* The calls of an attempt so far, summed up.
JoinClass(cur, c) == IF cur = "none" \/ cur = c THEN c ELSE "mixed"

\* ------------------------------------------------------------ thread state
NoRet == [blocks |-> <<>>, events |-> <<>>]

Idle ==
  [pc |-> "idle", kind |-> "none", nums |-> <<>>,
   attempt |-> 0, slept |-> 0,
   uncached |-> <<>>, results |-> <<>>, hash_map |-> <<>>,
   valid_blocks |-> <<>>, block_results |-> <<>>,
   blocks |-> <<>>, events |-> <<>>,
   retv |-> None, ret |-> NoRet,
   \* history, read by the properties only
   cache0 |-> {}, ncalls |-> 0, sent |-> <<>>,
   block_calls |-> <<>>, event_calls |-> <<>>,
   cur |-> "none", cause |-> "none", last |-> "none",
   prevfail |-> TRUE, skipped |-> FALSE, prior |-> None]

\* Locals of one attempt, dropped when the attempt ends.
AttemptLocals(r) ==
  [r EXCEPT !.uncached = <<>>, !.results = <<>>, !.hash_map = <<>>,
            !.valid_blocks = <<>>, !.block_results = <<>>,
            !.blocks = <<>>, !.events = <<>>,
            !.cache0 = {}, !.ncalls = 0, !.sent = <<>>,
            !.block_calls = <<>>, !.event_calls = <<>>,
            !.cur = "none", !.cause = "none"]

\* Strictly increasing, non-empty lists of block numbers, at most one chunk long.
NumLists ==
  {s \in SeqsUpTo(Blocks, MaxBlock) :
     /\ s # <<>>
     /\ Len(s) <= BATCH_SIZE
     /\ \A i \in 1..Len(s) : \A j \in 1..Len(s) : i < j => s[i] < s[j]}

Range(s) == {s[i] : i \in 1..Len(s)}

\* ------------------------------------------------------------ the cache lock
\* A threading.Lock that lets a second thread in while it is held.
LockFreeBroken == TRUE

\* Lock.acquire blocks until the lock is free.
LockFree == cache_lock = 0

\* A `with self.cache_lock:` block left with the lock still held by t.
ReleaseKept(t) == t

\* The value of the lock after thread t left a `with self.cache_lock:` block
\* (lines 184-186, 191-192, 196-197, 202-205, 207-208): released.
Release(t) == 0

\* `with self.cache_lock:` entered by thread t.
Acquire(t, from, to) ==
  /\ th[t].pc = from
  /\ LockFree
  /\ cache_lock' = t
  /\ th' = [th EXCEPT ![t].pc = to]
  /\ UNCHANGED <<bc, block_hash_cache, srv, orch, hist, ep, conn, meta>>

\* self.block_hash_cache.get(bn)
CacheGet(bn) ==
  IF bn \in DOMAIN block_hash_cache THEN block_hash_cache[bn] ELSE None

\* self.block_hash_cache[bn] = h
CachePut(c, bn, h) == [k \in DOMAIN c \cup {bn} |-> IF k = bn THEN h ELSE c[k]]

\* ------------------------------------------------ _get_connection, _raw_call
\* What the transport does with one request: conn.request or getresponse
\* raises (exc), else a status and a body arrive.
Statuses == {200, 201, 404, 429, 503}
ErrorTexts ==
  {"rate limit exceeded", "LIMIT reached", "Too Many Requests",
   "Invalid Request"}

\* str(result["error"]).lower() (line 102)
Lower(text) ==
  CASE text = "LIMIT reached" -> "limit reached"
    [] text = "Too Many Requests" -> "too many requests"
    [] text = "Invalid Request" -> "invalid request"
    [] OTHER -> text

\* line 103: "rate" in msg or "limit" in msg or "too many" in msg
RateLimited(msg) ==
  msg \in {"rate limit exceeded", "limit reached", "too many requests"}

\* Bodies: bytes that are not UTF-8, text that is not JSON, the JSON null, an
\* object with an error member, an object with a result, an array.
Bodies ==
  {[kind |-> "notutf8", error |-> ""], [kind |-> "notjson", error |-> ""],
   [kind |-> "null", error |-> ""], [kind |-> "result", error |-> ""],
   [kind |-> "array", error |-> ""]}
  \cup {[kind |-> "error", error |-> e] : e \in ErrorTexts}

Outcomes_raw ==
  {[exc |-> TRUE, status |-> 200, body |-> [kind |-> "null", error |-> ""]]}
  \cup {[exc |-> FALSE, status |-> st, body |-> b] : st \in Statuses, b \in Bodies}

\* json.loads(data) (line 98) of a body that is JSON
Decoded(body) ==
  CASE body.kind = "null" -> RawNone
    [] body.kind = "result" -> RawObj("ha")
    [] body.kind = "array" -> RawList(<<IdItem(0, "ha")>>)
    [] OTHER -> RawDict

\* lines 108-115 letting the exception through.
OnExceptionReraise == [ret |-> "raised", value |-> RawNone, recreate |-> FALSE]

\* lines 108-115: `except Exception`: a new connection for the host, None
OnException == [ret |-> "absent", value |-> RawNone, recreate |-> TRUE]

Absent == [ret |-> "absent", value |-> RawNone, recreate |-> FALSE]

\* The try block of _raw_call (lines 79-107) and its handler, on what the
\* transport does.
raw_call(out) ==
  IF out.exc THEN OnException
  ELSE IF out.body.kind = "notutf8" THEN OnException
  ELSE IF out.status # 200 THEN Absent
  ELSE IF out.body.kind = "notjson" THEN OnException
  ELSE IF out.body.kind = "error" /\ RateLimited(Lower(out.body.error))
       THEN Absent
  ELSE [ret |-> "decoded", value |-> Decoded(out.body), recreate |-> FALSE]

\* threading.local keeping one `connections` dict for all threads.
SlotShared(t) == 1

\* self.thread_local: the attributes of thread t
Slot(t) == t

\* No thread has called _raw_call yet. Connections are numbered in the order
\* of their creation; owner, users and last (the latest call) are history.
NoConnections ==
  [connections |-> [t \in Threads |-> <<>>], made |-> 0,
   owner |-> <<>>, users |-> <<>>, calls |-> 0,
   last |-> [ret |-> "none"]]

\* _raw_call(endpoint, payload) by thread t, host being the endpoint's
\* netloc: lines 75-115 with _get_connection (lines 59-73).
RawCall(t, host, out) ==
  /\ conn.calls < MaxRawCalls
  /\ LET mine == conn.connections[Slot(t)]
         had == IF host \in DOMAIN mine THEN mine[host] ELSE 0
         used == IF had # 0 THEN had ELSE conn.made + 1
         made1 == IF had # 0 THEN conn.made ELSE conn.made + 1
         r == raw_call(out)
         after == IF r.recreate THEN made1 + 1 ELSE used
         made2 == IF r.recreate THEN made1 + 1 ELSE made1
         owner1 == IF had # 0 THEN conn.owner ELSE Append(conn.owner, t)
         users1 == IF had # 0 THEN conn.users ELSE Append(conn.users, {})
     IN conn' = [connections |->
                   [conn.connections EXCEPT ![Slot(t)] = CachePut(mine, host, after)],
                 made |-> made2,
                 owner |-> IF r.recreate THEN Append(owner1, t) ELSE owner1,
                 users |-> LET u == [users1 EXCEPT ![used] = @ \cup {t}] IN
                           IF r.recreate THEN Append(u, {}) ELSE u,
                 calls |-> conn.calls + 1,
                 last |-> [ret |-> r.ret, value |-> r.value, out |-> out,
                           t |-> t, host |-> host, had |-> had, used |-> used,
                           after |-> after, made0 |-> conn.made]]
  /\ UNCHANGED <<bc, block_hash_cache, cache_lock, th, srv, orch, hist, ep,
                 meta>>

\* ------------------------------------------------------------ get_block_hash
\* The hash an earlier, finished get_block_hash(n) returned, if recorded.
Returned(n) == IF n \in DOMAIN hist.returned THEN hist.returned[n] ELSE None

\* A caller enters get_block_hash(n).
StartHash(t, n) ==
  /\ th[t].pc = "idle"
  /\ th' = [th EXCEPT ![t] = [Idle EXCEPT !.pc = "gbh_lock1", !.kind = "hash",
                                          !.nums = <<n>>,
                                          !.prior = Returned(n)]]
  /\ UNCHANGED <<bc, block_hash_cache, cache_lock, srv, orch, hist, ep, conn,
                 meta>>

\* line 184
GbhLock1(t) == Acquire(t, "gbh_lock1", "gbh_read")

\* lines 185-186, and the end of the `with` block
GbhRead(t) ==
  /\ th[t].pc = "gbh_read"
  /\ LET n == th[t].nums[1] IN
     th' = [th EXCEPT ![t] =
              IF n \in DOMAIN block_hash_cache
              THEN [th[t] EXCEPT !.pc = "done", !.retv = block_hash_cache[n]]
              ELSE [th[t] EXCEPT !.pc = "gbh_net"]]
  /\ cache_lock' = Release(t)
  /\ UNCHANGED <<bc, block_hash_cache, srv, orch, hist, ep, conn, meta>>

\* lines 188-189 and, for a falsy result, line 192
GbhCall(t) ==
  /\ th[t].pc = "gbh_net"
  /\ \E raw \in ServerSingle(th[t].nums[1]) :
       LET result == call(raw) IN
       th' = [th EXCEPT ![t] =
                IF Truthy(result)
                THEN [th[t] EXCEPT !.pc = "gbh_lock2", !.results = <<result>>,
                                   !.ncalls = 1]
                ELSE [th[t] EXCEPT !.pc = "done", !.retv = result, !.ncalls = 1]]
  /\ UNCHANGED <<bc, block_hash_cache, cache_lock, srv, orch, hist, ep, conn,
                 meta>>

\* line 190
GbhLock2(t) == Acquire(t, "gbh_lock2", "gbh_write")

\* lines 191-192
GbhWrite(t) ==
  /\ th[t].pc = "gbh_write"
  /\ block_hash_cache' =
       CachePut(block_hash_cache, th[t].nums[1], th[t].results[1])
  /\ cache_lock' = Release(t)
  /\ th' = [th EXCEPT ![t] = [th[t] EXCEPT !.pc = "done",
                                           !.retv = th[t].results[1],
                                           !.results = <<>>]]
  /\ UNCHANGED <<bc, srv, orch, hist, ep, conn, meta>>

\* ---------------------------------------------------- get_block_hashes_batch
\* A caller enters get_block_hashes_batch(nums).
StartHashes(t, nums) ==
  /\ th[t].pc = "idle"
  /\ th' = [th EXCEPT ![t] = [Idle EXCEPT !.pc = "ghb_lock1", !.kind = "hashes",
                                          !.nums = nums]]
  /\ UNCHANGED <<bc, block_hash_cache, cache_lock, srv, orch, hist, ep, conn,
                 meta>>

\* line 197 with every requested number taken as uncached.
UncachedAll(nums, c) == nums

\* line 197: [bn for bn in block_numbers if bn not in self.block_hash_cache]
Uncached(nums, c) == SelectSeq(nums, LAMBDA bn : bn \notin DOMAIN c)

\* lines 203-205: for bn, result in zip(uncached, results): if result: store
RECURSIVE Merge(_, _, _)
Merge(c, uncached, results) ==
  IF uncached = <<>> \/ results = <<>> THEN c
  ELSE Merge(IF Truthy(Head(results))
             THEN CachePut(c, Head(uncached), Head(results)) ELSE c,
             Tail(uncached), Tail(results))

\* line 208 answering absent for every number that was cached before.
HashMapFetchedOnly(nums, c, uncached) ==
  [bn \in Range(nums) |->
     IF bn \in Range(uncached) /\ bn \in DOMAIN c THEN c[bn] ELSE None]

\* line 208: {bn: self.block_hash_cache.get(bn) for bn in block_numbers}
HashMap(nums, c, uncached) ==
  [bn \in Range(nums) |-> IF bn \in DOMAIN c THEN c[bn] ELSE None]

\* line 196
GhbLock1(t) == Acquire(t, "ghb_lock1", "ghb_read")

\* lines 197-199
GhbRead(t) ==
  /\ th[t].pc = "ghb_read"
  /\ LET uncached == Uncached(th[t].nums, block_hash_cache) IN
     th' = [th EXCEPT ![t] =
              [th[t] EXCEPT !.pc = IF uncached # <<>> THEN "ghb_net"
                                   ELSE "ghb_lock3",
                            !.uncached = uncached,
                            !.cache0 = DOMAIN block_hash_cache
                                         \cap Range(th[t].nums)]]
  /\ cache_lock' = Release(t)
  /\ UNCHANGED <<bc, block_hash_cache, srv, orch, hist, ep, conn, meta>>

\* An exception leaves get_block_hashes_batch or the fetcher's attempt: it
\* reaches the handler of fetch_block_and_events_batch (line 275), or the
\* caller of a direct get_block_hashes_batch.
Raised(r, cause) ==
  [AttemptLocals(r) EXCEPT !.pc = IF r.kind = "fetch" THEN "except" ELSE "raised",
                           !.cur = JoinClass(r.cur, "mixed"),
                           !.cause = cause]

\* lines 200-201
GhbBatch(t) ==
  /\ th[t].pc = "ghb_net"
  /\ \E raw \in ServerBatch("chain_getBlockHash", th[t].uncached) :
       LET r == batch_call(th[t].uncached, raw) IN
       th' = [th EXCEPT ![t] =
                IF r.raised THEN Raised(th[t], "batch_id")
                ELSE [th[t] EXCEPT
                        !.pc = "ghb_lock2", !.results = r.results,
                        !.ncalls = th[t].ncalls + 1, !.sent = th[t].uncached,
                        !.cur = JoinClass(th[t].cur,
                                          CallClass(raw, Len(th[t].uncached)))]]
  /\ UNCHANGED <<bc, block_hash_cache, cache_lock, srv, orch, hist, ep, conn,
                 meta>>

\* line 202
GhbLock2(t) == Acquire(t, "ghb_lock2", "ghb_write")

\* lines 203-205
GhbWrite(t) ==
  /\ th[t].pc = "ghb_write"
  /\ block_hash_cache' = Merge(block_hash_cache, th[t].uncached, th[t].results)
  /\ cache_lock' = Release(t)
  /\ th' = [th EXCEPT ![t] = [th[t] EXCEPT !.pc = "ghb_lock3", !.results = <<>>]]
  /\ UNCHANGED <<bc, srv, orch, hist, ep, conn, meta>>

\* line 207
GhbLock3(t) == Acquire(t, "ghb_lock3", "ghb_ret")

\* ------------------------------------------- _fetch_block_and_events_batch_impl
\* line 289 without the `if h` filter.
ValidBlocksAll(nums, hm) == [i \in 1..Len(nums) |-> <<nums[i], hm[nums[i]]>>]

\* line 289: [(bn, h) for bn, h in hash_map.items() if h]
ValidBlocks(nums, hm) ==
  SelectSeq([i \in 1..Len(nums) |-> <<nums[i], hm[nums[i]]>>],
            LAMBDA p : Truthy(p[2]))

\* lines 295 and 300: the hash of every valid pair, in order
HashesOf(valid) == [i \in 1..Len(valid) |-> valid[i][2]]

BlockRecord(bn, block_data) == [blockNumber |-> bn, data |-> block_data]
EventRecord(bn, event_data) == [blockNumber |-> bn, events |-> event_data]

\* lines 303-324: the zip loop. block_data["block"]["header"] raises on a
\* truthy block result that has no "block" member.
RECURSIVE BuildRecords(_, _, _, _, _)
BuildRecords(valid, bres, eres, blocks, events) ==
  IF valid = <<>> \/ bres = <<>> \/ eres = <<>>
  THEN [raised |-> FALSE, blocks |-> blocks, events |-> events]
  ELSE LET bn == Head(valid)[1]
           block_data == Head(bres)
           event_data == Head(eres)
       IN IF Truthy(block_data) /\ block_data = "badblk"
          THEN [raised |-> TRUE, blocks |-> <<>>, events |-> <<>>]
          ELSE BuildRecords(
                 Tail(valid), Tail(bres), Tail(eres),
                 IF Truthy(block_data)
                 THEN Append(blocks, BlockRecord(bn, block_data)) ELSE blocks,
                 IF Truthy(event_data)
                 THEN Append(events, EventRecord(bn, event_data)) ELSE events)

\* line 208 and the end of get_block_hashes_batch; for the fetcher, lines
\* 286-292 of the attempt that called it.
GhbReturn(t) ==
  /\ th[t].pc = "ghb_ret"
  /\ LET hm == HashMap(th[t].nums, block_hash_cache, th[t].uncached)
         valid == ValidBlocks(th[t].nums, hm)
         r == [th[t] EXCEPT !.hash_map = hm, !.uncached = <<>>,
                            !.cache0 = {}, !.ncalls = 0, !.sent = <<>>]
     IN th' = [th EXCEPT ![t] =
                 IF th[t].kind = "hashes" THEN [r EXCEPT !.pc = "done"]
                 ELSE IF valid = <<>> THEN [r EXCEPT !.pc = "check"]
                 ELSE [r EXCEPT !.pc = "blk_net", !.valid_blocks = valid]]
  /\ cache_lock' = Release(t)
  /\ UNCHANGED <<bc, block_hash_cache, srv, orch, hist, ep, conn, meta>>

\* lines 295-296
BlkBatch(t) ==
  /\ th[t].pc = "blk_net"
  /\ LET block_calls == HashesOf(th[t].valid_blocks) IN
     \E raw \in ServerBatch("chain_getBlock", block_calls) :
       LET r == batch_call(block_calls, raw) IN
       th' = [th EXCEPT ![t] =
                IF r.raised THEN Raised(th[t], "batch_id")
                ELSE [th[t] EXCEPT
                        !.pc = "evt_net", !.block_results = r.results,
                        !.block_calls = block_calls,
                        !.cur = JoinClass(th[t].cur,
                                          CallClass(raw, Len(block_calls)))]]
  /\ UNCHANGED <<bc, block_hash_cache, cache_lock, srv, orch, hist, ep, conn,
                 meta>>

\* lines 299-324
EvtBatch(t) ==
  /\ th[t].pc = "evt_net"
  /\ LET event_calls == HashesOf(th[t].valid_blocks) IN
     \E raw \in ServerBatch("state_getStorage", event_calls) :
       LET r == batch_call(event_calls, raw)
           b == BuildRecords(th[t].valid_blocks, th[t].block_results,
                             r.results, <<>>, <<>>)
       IN th' = [th EXCEPT ![t] =
                   IF r.raised THEN Raised(th[t], "batch_id")
                   ELSE IF b.raised THEN Raised(th[t], "block_data")
                   ELSE [th[t] EXCEPT
                           !.pc = "check", !.event_calls = event_calls,
                           !.valid_blocks = <<>>, !.block_results = <<>>,
                           !.blocks = b.blocks, !.events = b.events,
                           !.cur = JoinClass(th[t].cur,
                                             CallClass(raw, Len(event_calls)))]]
  /\ UNCHANGED <<bc, block_hash_cache, cache_lock, srv, orch, hist, ep, conn,
                 meta>>

\* ------------------------------------------------ fetch_block_and_events_batch
\* fetch_block_and_events_batch(nums) entered: attempt 0 starts (lines
\* 260-262, 286).
FetchEntry(nums) ==
  [Idle EXCEPT !.pc = "ghb_lock1", !.kind = "fetch", !.nums = nums]

\* A caller calls fetch_block_and_events_batch(nums) on idle thread t.
StartFetch(t, nums) ==
  /\ th[t].pc = "idle"
  /\ th' = [th EXCEPT ![t] = FetchEntry(nums)]
  /\ UNCHANGED <<bc, block_hash_cache, cache_lock, srv, orch, hist, ep, conn,
                 meta>>

\* A caller calls fetch_block_and_events_batch on one of the lists of the
\* history, each list once.
StartPart(t, nums) ==
  /\ th[t].pc = "idle"
  /\ nums \in hist.lists \ hist.started
  /\ th' = [th EXCEPT ![t] = FetchEntry(nums)]
  /\ hist' = [hist EXCEPT !.started = hist.started \cup {nums}]
  /\ UNCHANGED <<bc, block_hash_cache, cache_lock, srv, orch, ep, conn, meta>>

\* lines 265-270 returning on the last attempt only.
FetchReturnsLastOnly(nblocks, nnums, attempt) == attempt = MAX_RETRIES - 1

\* lines 265-270: return when complete, or on the last attempt
FetchReturns(nblocks, nnums, attempt) ==
  nblocks = nnums \/ attempt = MAX_RETRIES - 1

\* lines 276-278 letting the exception of the last attempt through.
HandlerReraise(r) ==
  IF r.attempt = MAX_RETRIES - 1
  THEN [AttemptLocals(r) EXCEPT !.pc = "raised"]
  ELSE [AttemptLocals(r) EXCEPT !.pc = "sleep"]

\* lines 275-279: `except Exception` of attempt r.attempt
Handler(r) ==
  IF r.attempt = MAX_RETRIES - 1
  THEN [AttemptLocals(r) EXCEPT !.pc = "done", !.ret = NoRet]
  ELSE [AttemptLocals(r) EXCEPT !.pc = "sleep"]

\* line 273 and line 279 with a delay that does not grow.
SleepDelayFlat(attempt) == RETRY_DELAY

\* lines 273 and 279: RETRY_DELAY * (attempt + 1)
SleepDelay(attempt) == RETRY_DELAY * (attempt + 1)

\* lines 265-273, after the attempt returned blocks and events
Check(t) ==
  /\ th[t].pc = "check"
  /\ LET r == th[t]
         complete == Len(r.blocks) = Len(r.nums)
     IN th' = [th EXCEPT ![t] =
                 IF FetchReturns(Len(r.blocks), Len(r.nums), r.attempt)
                 THEN [r EXCEPT !.pc = "done",
                                !.last = IF complete THEN "complete" ELSE "inc",
                                !.ret = [blocks |-> r.blocks, events |-> r.events]]
                 ELSE [AttemptLocals(r) EXCEPT
                         !.pc = "sleep",
                         !.prevfail = r.prevfail /\ r.cur = "fail",
                         !.skipped = r.skipped \/ complete]]
  /\ UNCHANGED <<bc, block_hash_cache, cache_lock, srv, orch, hist, ep, conn,
                 meta>>

\* lines 275-279, after the attempt raised
Except(t) ==
  /\ th[t].pc = "except"
  /\ LET r == th[t] IN
     th' = [th EXCEPT ![t] =
              IF r.attempt = MAX_RETRIES - 1
              THEN [Handler(r) EXCEPT !.last = "exc"]
              ELSE [Handler(r) EXCEPT !.prevfail = FALSE]]
  /\ UNCHANGED <<bc, block_hash_cache, cache_lock, srv, orch, hist, ep, conn,
                 meta>>

\* time.sleep returns and the next attempt starts (lines 260-262, 286)
Sleep(t) ==
  /\ th[t].pc = "sleep"
  /\ th' = [th EXCEPT ![t] =
              [th[t] EXCEPT !.pc = "ghb_lock1",
                            !.slept = th[t].slept + SleepDelay(th[t].attempt),
                            !.attempt = th[t].attempt + 1]]
  /\ UNCHANGED <<bc, block_hash_cache, cache_lock, srv, orch, hist, ep, conn,
                 meta>>

\* The history after the call of thread record r was handed to its caller:
\* in mode "hash" the hash a get_block_hash call returned for its number, in
\* mode "part" the lists fetch_block_and_events_batch returned for its list.
Recorded(h, r) ==
  IF h.mode = "hash" /\ r.kind = "hash" /\ r.pc = "done" /\ Truthy(r.retv)
  THEN [h EXCEPT !.returned = CachePut(h.returned, r.nums[1], r.retv)]
  ELSE IF h.mode = "part" /\ r.kind = "fetch" /\ r.pc = "done"
  THEN [h EXCEPT !.out = CachePut(h.out, r.nums, r.ret)]
  ELSE h

\* The caller takes the result (or the exception); the thread is free again.
Finish(t) ==
  /\ th[t].pc \in {"done", "raised"}
  /\ th' = [th EXCEPT ![t] = Idle]
  /\ hist' = Recorded(hist, th[t])
  /\ UNCHANGED <<bc, block_hash_cache, cache_lock, srv, orch, ep, conn, meta>>

\* One step of thread t inside get_block_hash or get_block_hashes_batch.
HashStep(t) ==
  GbhLock1(t) \/ GbhRead(t) \/ GbhCall(t) \/ GbhLock2(t) \/ GbhWrite(t)

\* One step of thread t inside get_block_hashes_batch.
HashesStep(t) ==
  \/ GhbLock1(t) \/ GhbRead(t) \/ GhbBatch(t) \/ GhbLock2(t) \/ GhbWrite(t)
  \/ GhbLock3(t) \/ GhbReturn(t)

\* One step of thread t inside either cache lookup.
CacheStep(t) == HashStep(t) \/ HashesStep(t)

\* One step of thread t inside the fetcher, outside the cache lookups.
FetchStep(t) ==
  BlkBatch(t) \/ EvtBatch(t) \/ Check(t) \/ Except(t) \/ Sleep(t)

\* ------------------------------------------------------ fetch_blocks_parallel
Min(a, b) == IF a < b THEN a ELSE b

\* line 349 with a step of BATCH_SIZE but slices one number longer.
BatchesOverlapping(block_numbers) ==
  [j \in 1..((Len(block_numbers) + BATCH_SIZE - 1) \div BATCH_SIZE) |->
     SubSeq(block_numbers, (j - 1) * BATCH_SIZE + 1,
            Min(j * BATCH_SIZE + 1, Len(block_numbers)))]

\* line 349: [block_numbers[i:i + BATCH_SIZE] for i in range(0, len, BATCH_SIZE)]
Batches(block_numbers) ==
  [j \in 1..((Len(block_numbers) + BATCH_SIZE - 1) \div BATCH_SIZE) |->
     SubSeq(block_numbers, (j - 1) * BATCH_SIZE + 1,
            Min(j * BATCH_SIZE, Len(block_numbers)))]

\* sorted(): rec goes behind every record whose key is not larger (stable).
RECURSIVE InsertByNumber(_, _)
InsertByNumber(sorted, rec) ==
  IF sorted = <<>> THEN <<rec>>
  ELSE IF sorted[Len(sorted)].blockNumber <= rec.blockNumber
       THEN Append(sorted, rec)
       ELSE Append(InsertByNumber(SubSeq(sorted, 1, Len(sorted) - 1), rec),
                   sorted[Len(sorted)])

\* lines 441 and 448 writing the records in the order they were gathered.
SortedByNumberOmitted(records) == records

\* lines 441 and 448: sorted(records, key=lambda x: x["blockNumber"])
RECURSIVE SortedByNumber(_)
SortedByNumber(records) ==
  IF records = <<>> THEN <<>>
  ELSE InsertByNumber(SortedByNumber(SubSeq(records, 1, Len(records) - 1)),
                      records[Len(records)])

Pending == [st |-> "pending", by |-> 0, blocks |-> <<>>, events |-> <<>>]

\* lines 345-357: the chunks are cut and every chunk is submitted
Submit ==
  /\ orch.pc = "start"
  /\ LET batches == Batches(orch.block_numbers) IN
     orch' = [orch EXCEPT !.pc = "collect", !.batches = batches,
                          !.fut = [j \in 1..Len(batches) |-> Pending]]
  /\ UNCHANGED <<bc, block_hash_cache, cache_lock, th, srv, hist, ep, conn,
                 meta>>

\* A pool worker takes the oldest chunk waiting in the executor's queue and
\* enters fetch_block_and_events_batch on it.
Take(t) ==
  /\ orch.pc = "collect"
  /\ th[t].pc = "idle"
  /\ \E j \in 1..Len(orch.fut) :
       /\ orch.fut[j].st = "pending"
       /\ \A k \in 1..(j - 1) : orch.fut[k].st # "pending"
       /\ orch' = [orch EXCEPT !.fut[j].st = "running", !.fut[j].by = t]
       /\ th' = [th EXCEPT ![t] = FetchEntry(orch.batches[j])]
  /\ UNCHANGED <<bc, block_hash_cache, cache_lock, srv, hist, ep, conn, meta>>

\* The worker's call returned (or raised): its future is set and the worker
\* is free for the next chunk.
Complete(t) ==
  /\ th[t].pc \in {"done", "raised"}
  /\ \E j \in 1..Len(orch.fut) :
       /\ orch.fut[j].st = "running" /\ orch.fut[j].by = t
       /\ orch' = [orch EXCEPT
                     !.fut[j] = [st |-> IF th[t].pc = "done" THEN "finished"
                                        ELSE "failed",
                                 by |-> 0,
                                 blocks |-> th[t].ret.blocks,
                                 events |-> th[t].ret.events]]
  /\ th' = [th EXCEPT ![t] = Idle]
  /\ UNCHANGED <<bc, block_hash_cache, cache_lock, srv, hist, ep, conn, meta>>

\* lines 363-364 adding the records of a chunk twice.
ExtendTwice(list, more) == list \o more \o more

\* lines 363-364: list.extend(more)
Extend(list, more) == list \o more

\* lines 360-364: as_completed hands over a finished future, in no order
\* the code fixes; future.result() raises what the task raised.
Collect ==
  /\ orch.pc = "collect"
  /\ \E j \in 1..Len(orch.fut) :
       /\ orch.fut[j].st \in {"finished", "failed"}
       /\ orch' = IF orch.fut[j].st = "failed"
                  THEN [orch EXCEPT !.pc = "crashed"]
                  ELSE [orch EXCEPT
                          !.fut[j].st = "collected",
                          !.completed = orch.completed + 1,
                          !.all_blocks =
                             Extend(orch.all_blocks, orch.fut[j].blocks),
                          !.all_events =
                             Extend(orch.all_events, orch.fut[j].events)]
  /\ UNCHANGED <<bc, block_hash_cache, cache_lock, th, srv, hist, ep, conn,
                 meta>>

\* line 369, then main's lines 436-450: both lists are written sorted
Return ==
  /\ orch.pc = "collect"
  /\ \A j \in 1..Len(orch.fut) : orch.fut[j].st = "collected"
  /\ orch' = [orch EXCEPT !.pc = "done",
                          !.out_blocks = SortedByNumber(orch.all_blocks),
                          !.out_events = SortedByNumber(orch.all_events)]
  /\ UNCHANGED <<bc, block_hash_cache, cache_lock, th, srv, hist, ep, conn,
                 meta>>

\* ------------------------------------------------------------ SpecBatch
\* One call of batch_call on a call list and a response drawn from bounded
\* sets.
BatchResults == {"ha", "hb"}
BatchIds == (0 - 1)..MaxCalls
BatchItems ==
  {NonDictItem} \cup {NoIdItem(r) : r \in {"ha"}}
  \cup {BadIdItem(ty, "ha") : ty \in {"null", "str"}}
  \cup {IdItem(i, r) : i \in BatchIds, r \in BatchResults}
  \cup {NoResultItem(i) : i \in BatchIds}
BatchRaws ==
  {RawNone, RawDict, RawObj("ha")}
  \cup {RawList(s) : s \in SeqsUpTo(BatchItems, MaxItems)}
BatchCallLists == {[i \in 1..k |-> i] : k \in 0..MaxCalls}

BatchIdle(calls) ==
  [pc |-> "start", calls |-> calls, raw |-> RawNone, out |-> <<>>, net |-> 0]

\* An endpoint that answers every call as it likes, a hash lookup with one
\* of hashres.
FreeServer(hashres) ==
  [mode |-> "any", hashres |-> hashres, hash |-> <<>>, block |-> <<>>,
   ev |-> <<>>]

\* ------------------------------ get_metadata_at_version, _decode_opaque_metadata
\* What self.call may return for state_call: nothing (JNone), a falsy value
\* that is not a string (0, false, an empty array or object), a string (as
\* the sequence of its characters), a true or non-zero number, an array or
\* object of n members.
JNone == [t |-> "none", chars |-> <<>>, n |-> 0]
JEmpty == [t |-> "empty", chars |-> <<>>, n |-> 0]
JNum == [t |-> "num", chars |-> <<>>, n |-> 0]
JList(n) == [t |-> "list", chars |-> <<>>, n |-> n]
Str(chars) == [t |-> "str", chars |-> chars, n |-> Len(chars)]

HexDigits ==
  <<"0", "1", "2", "3", "4", "5", "6", "7", "8", "9",
    "a", "b", "c", "d", "e", "f">>
IsHexDigit(c) == \E i \in 1..Len(HexDigits) : HexDigits[i] = c
HexValue(c) == (CHOOSE i \in 1..Len(HexDigits) : HexDigits[i] = c) - 1

\* Python's s[a:] and s[a:b] for 0 <= a <= b: no index is out of range.
From(s, a) == SubSeq(s, a + 1, Len(s))
Slice(s, a, b) == SubSeq(s, a + 1, IF b < Len(s) THEN b ELSE Len(s))
StartsWith(s, prefix) == Slice(s, 0, Len(prefix)) = prefix

\* line 221: f"{version:02x}", at least two hex digits
RECURSIVE HexOf(_)
HexOf(v) ==
  IF v < 16 THEN <<HexDigits[v + 1]>>
  ELSE HexOf(v \div 16) \o <<HexDigits[(v % 16) + 1]>>
VersionParam(version) ==
  <<"0", "x">> \o (IF version < 16 THEN <<"0">> ELSE <<>>) \o HexOf(version)
    \o <<"0", "0", "0", "0", "0", "0">>

\* int(s, 16) of line 240: blanks around the number are dropped, a sign may
\* lead, then come one or more hex digits; anything else is a ValueError
\* (ok = FALSE). s has at most two characters here, so the forms with a
\* 0x prefix or an underscore between digits have no room.
Blank == {" "}
Signs == {"+", "-"}
RECURSIVE StripLeft(_)
StripLeft(s) ==
  IF s # <<>> /\ Head(s) \in Blank THEN StripLeft(Tail(s)) ELSE s
RECURSIVE StripRight(_)
StripRight(s) ==
  IF s # <<>> /\ s[Len(s)] \in Blank
  THEN StripRight(SubSeq(s, 1, Len(s) - 1)) ELSE s
RECURSIVE HexNumber(_)
HexNumber(d) ==
  IF d = <<>> THEN 0
  ELSE 16 * HexNumber(SubSeq(d, 1, Len(d) - 1)) + HexValue(d[Len(d)])
ParseHex(s) ==
  LET b == StripRight(StripLeft(s))
      signed == b # <<>> /\ Head(b) \in Signs
      d == IF signed THEN Tail(b) ELSE b
  IN IF d = <<>> \/ \E i \in 1..Len(d) : ~IsHexDigit(d[i])
     THEN [ok |-> FALSE, v |-> 0]
     ELSE [ok |-> TRUE,
           v |-> IF signed /\ Head(b) = "-" THEN 0 - HexNumber(d)
                 ELSE HexNumber(d)]

\* lines 241-249: `& 0b11` is the residue modulo 4 and `>> 2` the floored
\* quotient by 4, for negative numbers too.
DataStart(first_byte) ==
  CASE first_byte % 4 = 0 -> 2
    [] first_byte % 4 = 1 -> 4
    [] first_byte % 4 = 2 -> 8
    [] OTHER -> 2 + ((first_byte \div 4) + 4) * 2

\* line 250: "0x" + hex_data[data_start:]
Payload(hex_data, data_start) == Str(<<"0", "x">> \o From(hex_data, data_start))

\* lines 235-252
decode_opaque_metadata(hex_data) ==
  IF hex_data = <<>> THEN JNone
  ELSE LET first_byte == ParseHex(Slice(hex_data, 0, 2)) IN
       IF ~first_byte.ok THEN JNone
       ELSE Payload(hex_data, DataStart(first_byte.v))

\* Python's `not result`
Falsy(result) ==
  result.t \in {"none", "empty"} \/ (result.t = "str" /\ result.chars = <<>>)

\* lines 228-233 on what self.call returned. len() of a number raises
\* TypeError; an array or object has no startswith (AttributeError).
get_metadata_at_version(result) ==
  IF Falsy(result) \/ result = Str(<<"0", "x", "0", "0">>)
  THEN [raised |-> FALSE, value |-> JNone]
  ELSE IF result.t = "num" THEN [raised |-> TRUE, value |-> JNone]
  ELSE IF result.n < 4 THEN [raised |-> FALSE, value |-> JNone]
  ELSE IF result.t = "list" THEN [raised |-> TRUE, value |-> JNone]
  ELSE IF StartsWith(result.chars, <<"0", "x", "0", "1">>)
  THEN [raised |-> FALSE,
        value |-> decode_opaque_metadata(From(result.chars, 4))]
  ELSE [raised |-> FALSE, value |-> JNone]

\* No call of get_metadata_at_version.
MetaOff ==
  [pc |-> "off", version |-> 0, result |-> JNone, sent |-> <<>>,
   raised |-> FALSE, value |-> JNone]

\* lines 219-233: one call, with the answer of state_call
GetMetadataAtVersion ==
  /\ meta.pc = "call"
  /\ LET r == get_metadata_at_version(meta.result) IN
     meta' = [meta EXCEPT !.pc = "done",
                          !.sent = VersionParam(meta.version),
                          !.raised = r.raised, !.value = r.value]
  /\ UNCHANGED <<bc, block_hash_cache, cache_lock, th, srv, orch, hist, ep,
                 conn>>

\* The client right after construction: empty cache, free lock, idle threads.
InitClient ==
  /\ block_hash_cache = <<>>
  /\ cache_lock = 0
  /\ th = [t \in Threads |-> Idle]
  /\ conn = NoConnections

\* A constructed client with one endpoint, pinned.
EpReady ==
  [pc |-> "ready", endpoints |-> <<"e1">>, answers |-> <<>>, i |-> 0,
   current_idx |-> 0, pinned |-> 0, cause |-> "none",
   sends |-> 0, sentto |-> {}, failed |-> FALSE]

\* Nothing is recorded.
HistOff ==
  [mode |-> "off", returned |-> <<>>, lists |-> {}, started |-> {},
   out |-> <<>>]

\* No run of main.
OrchOff ==
  [pc |-> "off", block_numbers |-> <<>>, batches |-> <<>>, fut |-> <<>>,
   all_blocks |-> <<>>, all_events |-> <<>>, completed |-> 0,
   out_blocks |-> <<>>, out_events |-> <<>>]

InitBatch ==
  /\ \E calls \in BatchCallLists : bc = BatchIdle(calls)
  /\ InitClient
  /\ meta = MetaOff
  /\ srv = FreeServer({None})
  /\ orch = OrchOff
  /\ hist = HistOff
  /\ ep = EpReady

BatchCall ==
  /\ bc.pc = "start"
  /\ \E raw \in BatchRaws :
       LET r == batch_call(bc.calls, raw) IN
       bc' = [pc |-> IF r.raised THEN "raised" ELSE "returned",
              calls |-> bc.calls,
              raw |-> IF r.sent THEN raw ELSE RawNone,
              out |-> r.results,
              net |-> IF r.sent THEN 1 ELSE 0]
  /\ UNCHANGED <<block_hash_cache, cache_lock, th, srv, orch, hist, ep, conn,
                 meta>>

NextBatch == BatchCall

SpecBatch == InitBatch /\ [][NextBatch]_vars

\* ------------------------------------------------------------ Spec
\* Thread 1 runs fetch_block_and_events_batch on any chunk, again and again;
\* thread 2 calls get_block_hash meanwhile. The endpoint answers every call
\* as it likes.
Init ==
  /\ bc = BatchIdle(<<>>)
  /\ InitClient
  /\ meta = MetaOff
  /\ srv = FreeServer({None, "ha"})
  /\ orch = OrchOff
  /\ hist = HistOff
  /\ ep = EpReady

Next ==
  \/ \E nums \in NumLists : StartFetch(1, nums)
  \/ \E n \in Blocks : StartHash(2, n)
  \/ \E t \in Threads : CacheStep(t)
  \/ \E t \in Threads : FetchStep(t)
  \/ \E t \in Threads : Finish(t)

Spec == Init /\ [][Next]_vars

\* ------------------------------------------------------------ SpecCache
\* Every thread calls get_block_hash and get_block_hashes_batch, again and
\* again, on any numbers; the endpoint answers a hash lookup with nothing or
\* with a hash, and either knows two hashes or may answer an empty string.
InitCache ==
  /\ bc = BatchIdle(<<>>)
  /\ InitClient
  /\ meta = MetaOff
  /\ srv \in {FreeServer({None} \cup Hashes), FreeServer({None, "", "ha"})}
  /\ orch = OrchOff
  /\ hist = HistOff
  /\ ep = EpReady

NextCache ==
  \/ \E t \in Threads : \E n \in Blocks : StartHash(t, n)
  \/ \E t \in Threads : \E nums \in NumLists : StartHashes(t, nums)
  \/ \E t \in Threads : CacheStep(t)
  \/ \E t \in Threads : Finish(t)

SpecCache == InitCache /\ [][NextCache]_vars

\* ------------------------------------------------------------ SpecParallel
\* main fetches the blocks 1..k over a fixed endpoint: every number has one
\* of four answers, the same at every attempt, and at most MaxFaulty numbers
\* have another answer than a full block.
MaxN == 5
MaxFaulty == 2

HashNames == <<"h1", "h2", "h3", "h4", "h5", "h6", "h7", "h8">>
Outcomes == {"nohash", "noblock", "bad", "full"}

\* The endpoint that answers number n as outcome[n] says.
FixedServer(outcome) ==
  [mode |-> "fixed", hashres |-> {},
   hash |-> [n \in DOMAIN outcome |->
               IF outcome[n] = "nohash" THEN None ELSE HashNames[n]],
   block |-> [h \in {HashNames[n] : n \in DOMAIN outcome} |->
                LET n == CHOOSE m \in DOMAIN outcome : HashNames[m] = h IN
                CASE outcome[n] = "noblock" -> None
                  [] outcome[n] = "bad" -> "badblk"
                  [] OTHER -> "blk"],
   ev |-> [h \in {HashNames[n] : n \in DOMAIN outcome} |-> "ev"]]

\* expand_test_blocks hands main a sorted list without repetition.
InitParallel ==
  /\ bc = BatchIdle(<<>>)
  /\ InitClient
  /\ meta = MetaOff
  /\ hist = HistOff
  /\ ep = EpReady
  /\ \E k \in 1..MaxN :
       /\ orch = [OrchOff EXCEPT !.pc = "start",
                                 !.block_numbers = [i \in 1..k |-> i]]
       /\ \E outcome \in [1..k -> Outcomes] :
            /\ Cardinality({n \in 1..k : outcome[n] # "full"}) <= MaxFaulty
            /\ srv = FixedServer(outcome)

NextParallel ==
  \/ Submit
  \/ \E t \in Threads : Take(t)
  \/ \E t \in Threads : HashesStep(t)
  \/ \E t \in Threads : FetchStep(t)
  \/ \E t \in Threads : Complete(t)
  \/ Collect
  \/ Return

SpecParallel == InitParallel /\ [][NextParallel]_vars

\* ------------------------------------------------------------ SpecIdem
\* Every thread calls get_block_hash, again and again, on any number; the
\* endpoint answers as it likes; the hash a finished call returned is
\* recorded.
InitIdem ==
  /\ bc = BatchIdle(<<>>)
  /\ InitClient
  /\ meta = MetaOff
  /\ ep = EpReady
  /\ srv = FreeServer({None} \cup Hashes)
  /\ orch = OrchOff
  /\ hist = [HistOff EXCEPT !.mode = "hash"]

NextIdem ==
  \/ \E t \in Threads : \E n \in Blocks : StartHash(t, n)
  \/ \E t \in Threads : HashStep(t)
  \/ \E t \in Threads : Finish(t)

SpecIdem == InitIdem /\ [][NextIdem]_vars

\* ------------------------------------------------------------ SpecPartition
\* A set of block numbers S is split into B1 and B2; the fetcher is called
\* once on each of the three lists, in any order and by any thread, over an
\* endpoint that answers every call, the same way each time.

\* The increasing list of the numbers of b1 and b2.
Joined(b1, b2) == CHOOSE s \in NumLists : Range(s) = Range(b1) \cup Range(b2)

Splits ==
  {<<b1, b2>> \in NumLists \X NumLists : Range(b1) \cap Range(b2) = {}}

InitPartition ==
  /\ bc = BatchIdle(<<>>)
  /\ InitClient
  /\ meta = MetaOff
  /\ ep = EpReady
  /\ orch = OrchOff
  /\ \E sp \in Splits : \E outcome \in [Blocks -> Outcomes] :
       /\ \A n \in Blocks \ (Range(sp[1]) \cup Range(sp[2])) :
            outcome[n] = "full"
       /\ srv = FixedServer(outcome)
       /\ hist = [HistOff EXCEPT !.mode = "part",
                                 !.lists = {sp[1], sp[2], Joined(sp[1], sp[2])}]

NextPartition ==
  \/ \E t \in Threads : \E nums \in hist.lists : StartPart(t, nums)
  \/ \E t \in Threads : HashesStep(t)
  \/ \E t \in Threads : FetchStep(t)
  \/ \E t \in Threads : Finish(t)

SpecPartition == InitPartition /\ [][NextPartition]_vars

\* ------------------------------------------------------------ SpecEndpoint
\* A client is built on a list of candidates, each with the decoded body it
\* answers the probe with; calls follow.
EndpointNames == <<"e1", "e2", "e3", "e4">>
ProbeAnswers ==
  {RawNone, RawDict, RawObj("chain"), RawObj(None), RawList(<<IdItem(1, "chain")>>),
   RawScalar, RawText(TRUE), RawText(FALSE)}

InitEndpoint ==
  /\ bc = BatchIdle(<<>>)
  /\ InitClient
  /\ meta = MetaOff
  /\ srv = FreeServer({None})
  /\ orch = OrchOff
  /\ hist = HistOff
  /\ \E k \in 0..MaxEndpoints : \E answers \in [1..k -> ProbeAnswers] :
       ep = [EpReady EXCEPT !.pc = "new",
                            !.endpoints = SubSeq(EndpointNames, 1, k),
                            !.answers = answers]

NextEndpoint == Construct \/ Probe \/ ClientCall

SpecEndpoint == InitEndpoint /\ [][NextEndpoint]_vars

\* ------------------------------------------------------------ SpecConn
\* The threads call _raw_call on endpoints of two hosts; the transport does
\* what it likes with each request.
Hosts == {"host1", "host2"}

InitConn ==
  /\ bc = BatchIdle(<<>>)
  /\ InitClient
  /\ meta = MetaOff
  /\ srv = FreeServer({None})
  /\ orch = OrchOff
  /\ hist = HistOff
  /\ ep = EpReady

NextConn ==
  \E t \in Threads : \E host \in Hosts : \E out \in Outcomes_raw :
    RawCall(t, host, out)

SpecConn == InitConn /\ [][NextConn]_vars

\* ------------------------------------------------------------ SpecFlaky
\* main fetches the blocks 1..k over a flaky endpoint: any batch may fail,
\* be answered with a malformed item, or miss results.
InitFlaky ==
  /\ bc = BatchIdle(<<>>)
  /\ InitClient
  /\ meta = MetaOff
  /\ hist = HistOff
  /\ ep = EpReady
  /\ \E k \in 1..MaxN :
       /\ orch = [OrchOff EXCEPT !.pc = "start",
                                 !.block_numbers = [i \in 1..k |-> i]]
       /\ srv = [FixedServer([n \in 1..k |-> "full"]) EXCEPT !.mode = "flaky"]

SpecFlaky == InitFlaky /\ [][NextParallel]_vars

\* ------------------------------------------------------------ SpecMeta
\* get_metadata_at_version is called once, for a metadata version and an
\* answer of state_call: not a string, or a string made of a head, the two
\* characters where the length tag is read, and some more characters.
Versions == {15, 16}
Heads ==
  {<<>>, <<"0">>, <<"0", "x">>, <<"0", "x", "0">>, <<"0", "x", "0", "0">>,
   <<"0", "x", "0", "1">>, <<"0", "x", "0", "2">>, <<"0", "X", "0", "1">>}
TagChars == {"0", "1", "2", "3", "f", "z", "x", " ", "+", "-"}
Tags == SeqsUpTo(TagChars, 2)
More == <<"a", "b", "c", "d", "e", "6", "7", "8", "9", "a", "b", "c">>
Rests == {SubSeq(More, 1, k) : k \in 0..MaxRest}
StateCallResults ==
  {JNone, JEmpty, JNum, JList(1), JList(4)}
    \cup {Str(h \o tag \o rest) : h \in Heads, tag \in Tags, rest \in Rests}

InitMeta ==
  /\ bc = BatchIdle(<<>>)
  /\ block_hash_cache = <<>>
  /\ cache_lock = 0
  /\ th = [t \in Threads |-> Idle]
  /\ conn = NoConnections
  /\ srv = FreeServer({None})
  /\ orch = OrchOff
  /\ hist = HistOff
  /\ ep = EpReady
  /\ \E version \in Versions : \E result \in StateCallResults :
       meta = [MetaOff EXCEPT !.pc = "call", !.version = version,
                              !.result = result]

NextMeta == GetMetadataAtVersion

SpecMeta == InitMeta /\ [][NextMeta]_vars

\* ------------------------------------------------------------ SpecFair
\* main fetches the blocks 1..k over a lossy endpoint (any batch may fail,
\* be answered with a malformed item, or be answered in full) under fair
\* scheduling: a worker that can go on does so (its network call returns,
\* its sleep ends, it gets the free lock, it takes a waiting chunk), and so
\* does the main thread.
InitFair ==
  /\ bc = BatchIdle(<<>>)
  /\ InitClient
  /\ meta = MetaOff
  /\ hist = HistOff
  /\ ep = EpReady
  /\ \E k \in 1..MaxN :
       /\ orch = [OrchOff EXCEPT !.pc = "start",
                                 !.block_numbers = [i \in 1..k |-> i]]
       /\ srv = [FixedServer([n \in 1..k |-> "full"]) EXCEPT !.mode = "lossy"]

WorkerStep(t) == Take(t) \/ HashesStep(t) \/ FetchStep(t) \/ Complete(t)

MainStep == Submit \/ Collect \/ Return

SpecFair ==
  /\ InitFair
  /\ [][NextParallel]_vars
  /\ WF_vars(MainStep)
  /\ \A t \in Threads : WF_vars(WorkerStep(t))

\* ============================================================== properties

\* An array response that holds exactly one item per request, each with the
\* id of its request, in any order.
IsPermutationResponse(raw, n) ==
  /\ raw.t = "list"
  /\ Len(raw.items) = n
  /\ \A k \in 1..n :
       /\ raw.items[k].isdict /\ raw.items[k].hasid
       /\ raw.items[k].idtype = "int"
  /\ \A i \in 0..(n - 1) : \E k \in 1..n : raw.items[k].id = i

\* C1: for a response that carries each request's id once, in any order,
\* batch_call returns len(calls) entries and entry i is the result of the item
\* with id i; for the empty call list it returns the empty sequence and sends
\* no request.
C1_BatchCallMatchesById ==
  /\ (bc.pc # "start" /\ bc.calls = <<>>) =>
       (bc.pc = "returned" /\ bc.out = <<>> /\ bc.net = 0)
  /\ (bc.pc # "start" /\ bc.calls # <<>>
      /\ IsPermutationResponse(bc.raw, Len(bc.calls))) =>
       /\ bc.pc = "returned"
       /\ bc.net = 1
       /\ Len(bc.out) = Len(bc.calls)
       /\ \A i \in 1..Len(bc.calls) : \A k \in 1..Len(bc.raw.items) :
            bc.raw.items[k].id = i - 1 =>
              bc.out[i] = (IF bc.raw.items[k].hasresult
                           THEN bc.raw.items[k].result ELSE None)

\* Calls [A, B, C] answered in the order [C, B, A].
C1_Witness ==
  /\ bc.pc = "returned"
  /\ Len(bc.calls) = 3
  /\ bc.raw = RawList(<<IdItem(2, "hb"), IdItem(1, "ha"), IdItem(0, "ha")>>)
  /\ bc.out = <<"ha", "ha", "hb">>

\* The result slots when every item without an integer id in range is
\* passed over.
RECURSIVE batch_loop_tolerant(_, _, _)
batch_loop_tolerant(items, results, n) ==
  IF items = <<>> THEN [raised |-> FALSE, results |-> results]
  ELSE LET item == Head(items) IN
       IF item.isdict /\ item.hasid /\ item.idtype = "int"
          /\ 0 <= item.id /\ item.id < n
       THEN batch_loop_tolerant(Tail(items),
                                [results EXCEPT ![item.id + 1] = ItemGet(item)], n)
       ELSE batch_loop_tolerant(Tail(items), results, n)

\* C7: whatever the items of an array response are, batch_call returns
\* normally: malformed items are ignored, unmatched slots are absent and the
\* slots of well-formed items are filled.
C7_MalformedItemsTolerated ==
  (bc.pc # "start" /\ bc.calls # <<>> /\ bc.raw.t = "list") =>
    /\ bc.pc = "returned"
    /\ bc.out = batch_loop_tolerant(bc.raw.items, AllNone(Len(bc.calls)),
                                    Len(bc.calls)).results

\* C2: fetch_block_and_events_batch runs at most MAX_RETRIES attempts, never
\* starts an attempt after a complete one, returns the records of the attempt
\* it returns from, and returns before the last attempt only when complete.
C2_AtMostThreeAttempts ==
  \A t \in Threads : th[t].kind = "fetch" =>
    /\ th[t].attempt <= MAX_RETRIES - 1
    /\ ~th[t].skipped
    /\ (th[t].pc = "done" /\ th[t].last # "exc") =>
         /\ th[t].ret = [blocks |-> th[t].blocks, events |-> th[t].events]
         /\ th[t].last = "complete" <=> Len(th[t].ret.blocks) = Len(th[t].nums)
         /\ th[t].last = "inc" => th[t].attempt = MAX_RETRIES - 1

\* The third attempt is incomplete and its one block record is returned.
C2_Witness ==
  \E t \in Threads :
    /\ th[t].kind = "fetch" /\ th[t].pc = "done"
    /\ th[t].attempt = 2 /\ th[t].last = "inc"
    /\ Len(th[t].nums) = 2 /\ Len(th[t].ret.blocks) = 1

\* C3: once the cache maps n to h it maps n to h in every later state.
C3_CacheEntryNeverChanges ==
  [][\A n \in DOMAIN block_hash_cache :
       /\ n \in DOMAIN block_hash_cache'
       /\ block_hash_cache'[n] = block_hash_cache[n]]_vars

\* The places of the code that read or write block_hash_cache.
CachePcs == {"gbh_read", "gbh_write", "ghb_read", "ghb_write", "ghb_ret"}

\* C4: a thread that reads or writes the cache mapping holds the cache lock,
\* the lock is held only there, so at most one thread is at the mapping; and
\* the mapping changes only in a step of the lock's holder.
C4_CacheOnlyUnderLock ==
  /\ [](/\ \A t \in Threads : th[t].pc \in CachePcs => cache_lock = t
        /\ cache_lock # 0 => th[cache_lock].pc \in CachePcs
        /\ \A t \in Threads : \A u \in Threads :
             (th[t].pc \in CachePcs /\ th[u].pc \in CachePcs) => t = u)
  /\ [][block_hash_cache' # block_hash_cache =>
          /\ cache_lock # 0
          /\ th[cache_lock].pc \in {"gbh_write", "ghb_write"}
          /\ th'[cache_lock] # th[cache_lock]
          /\ cache_lock' = 0]_vars

\* One thread writes under the lock while the other waits for it.
C4_Witness ==
  /\ th[1].pc = "ghb_write" /\ cache_lock = 1
  /\ th[2].pc = "gbh_lock2"

\* C6: no exception leaves fetch_block_and_events_batch; an exception of an
\* attempt before the last leads to the sleep RETRY_DELAY*(attempt+1) and a
\* new attempt over the same numbers, one of the last attempt to the return
\* of empty lists.
C6_ExceptionsHandled ==
  /\ [](\A t \in Threads : th[t].kind = "fetch" =>
          /\ th[t].pc # "raised"
          /\ (th[t].pc = "done" /\ th[t].last = "exc") =>
               (th[t].ret = NoRet /\ th[t].attempt = MAX_RETRIES - 1))
  /\ [][\A t \in Threads :
          /\ (th[t].pc = "except" /\ th'[t] # th[t]) =>
               IF th[t].attempt < MAX_RETRIES - 1
               THEN /\ th'[t].pc = "sleep"
                    /\ th'[t].attempt = th[t].attempt
                    /\ th'[t].nums = th[t].nums
               ELSE th'[t].pc = "done" /\ th'[t].ret = NoRet
          /\ (th[t].pc = "sleep" /\ th'[t] # th[t]) =>
               /\ th'[t].pc = "ghb_lock1"
               /\ th'[t].nums = th[t].nums
               /\ th'[t].attempt = th[t].attempt + 1
               /\ th'[t].slept = th[t].slept + RETRY_DELAY * (th[t].attempt + 1)]_vars

\* The last attempt raised and the call returned empty lists.
C6_Witness ==
  \E t \in Threads :
    /\ th[t].kind = "fetch" /\ th[t].pc = "done" /\ th[t].last = "exc"
    /\ th[t].ret = NoRet

\* The requested numbers whose lookup gave a hash (V), and their hashes in the
\* order of the request.
Resolved(r) == {bn \in Range(r.nums) : Truthy(r.hash_map[bn])}
ResolvedHashes(r) ==
  LET v == SelectSeq(r.nums, LAMBDA bn : Truthy(r.hash_map[bn])) IN
  [i \in 1..Len(v) |-> r.hash_map[v[i]]]

\* C8: in one attempt the chain_getBlock batch and the state_getStorage batch
\* hold one call per resolved number, with its hash, and none for the others;
\* the unresolved numbers give no record; an attempt raises only on a
\* malformed response.
C8_OnlyResolvedNumbersFetched ==
  \A t \in Threads : th[t].kind = "fetch" =>
    /\ th[t].pc = "evt_net" => th[t].block_calls = ResolvedHashes(th[t])
    /\ th[t].pc = "check" =>
         /\ th[t].block_calls = ResolvedHashes(th[t])
         /\ th[t].event_calls = ResolvedHashes(th[t])
         /\ \A i \in 1..Len(th[t].blocks) :
              th[t].blocks[i].blockNumber \in Resolved(th[t])
         /\ \A i \in 1..Len(th[t].events) :
              th[t].events[i].blockNumber \in Resolved(th[t])
    /\ th[t].pc = "except" => th[t].cause \in {"batch_id", "block_data"}

\* Of two requested numbers one resolved: one call per batch, one record each.
C8_Witness ==
  \E t \in Threads :
    /\ th[t].kind = "fetch" /\ th[t].pc = "check"
    /\ Len(th[t].nums) = 2 /\ Cardinality(Resolved(th[t])) = 1
    /\ Len(th[t].block_calls) = 1 /\ Len(th[t].event_calls) = 1
    /\ Len(th[t].blocks) = 1 /\ Len(th[t].events) = 1

\* The records of a fetch in which every number resolved and answered.
FullBlocks(nums) == [i \in 1..Len(nums) |-> BlockRecord(nums[i], "blk")]
FullEvents(nums) == [i \in 1..Len(nums) |-> EventRecord(nums[i], "ev")]

\* C9: the fetcher has slept RETRY_DELAY*(k+1) after each attempt k it did
\* not return from, and nothing after the one it returned from; when every
\* call of attempts 1 and 2 failed and every call of attempt 3 was answered,
\* it returns the full records after sleeping RETRY_DELAY*(1+2).
C9_LinearBackoff ==
  \A t \in Threads : th[t].kind = "fetch" =>
    /\ th[t].slept = RETRY_DELAY * ((th[t].attempt * (th[t].attempt + 1)) \div 2)
    /\ (th[t].pc = "done" /\ th[t].attempt = 2 /\ th[t].prevfail
        /\ th[t].cur = "ok") =>
         /\ th[t].ret = [blocks |-> FullBlocks(th[t].nums),
                         events |-> FullEvents(th[t].nums)]
         /\ th[t].slept = RETRY_DELAY * (1 + 2)

\* Two failed attempts, then a third that is answered in full.
C9_Witness ==
  \E t \in Threads :
    /\ th[t].kind = "fetch" /\ th[t].pc = "done" /\ th[t].attempt = 2
    /\ th[t].prevfail /\ th[t].cur = "ok"
    /\ Len(th[t].nums) = 2 /\ Len(th[t].ret.blocks) = 2
    /\ th[t].slept = 3

\* What a get_block_hashes_batch in progress has sent, against the cache it
\* read under the lock.
GhbCallsExact(r) ==
  /\ r.ncalls <= 1
  /\ r.pc \in {"ghb_lock2", "ghb_write"} => r.ncalls = 1
  /\ r.ncalls = 1 =>
       r.sent = SelectSeq(r.nums, LAMBDA bn : bn \notin r.cache0)
  /\ r.pc \in {"ghb_lock3", "ghb_ret"} =>
       (r.ncalls = 0 <=> Range(r.nums) \subseteq r.cache0)

\* The mapping a returning get_block_hashes_batch hands back.
GhbReturnsCacheState(t) ==
  (th[t].pc = "ghb_ret" /\ th'[t].pc # "ghb_ret") =>
    /\ DOMAIN th'[t].hash_map = Range(th[t].nums)
    /\ \A bn \in Range(th[t].nums) : th'[t].hash_map[bn] = CacheGet(bn)

ChunkRaises(i) ==
  \E m \in 1..Len(orch.block_numbers) :
    /\ (m - 1) \div BATCH_SIZE = (i - 1) \div BATCH_SIZE
    /\ Truthy(srv.hash[orch.block_numbers[m]])
    /\ srv.block[srv.hash[orch.block_numbers[m]]] = "badblk"

YieldsEvent(i) ==
  /\ Truthy(srv.hash[orch.block_numbers[i]])
  /\ Truthy(srv.ev[srv.hash[orch.block_numbers[i]]])
  /\ ~ChunkRaises(i)

YieldsBlock(i) ==
  /\ Truthy(srv.hash[orch.block_numbers[i]])
  /\ Truthy(srv.block[srv.hash[orch.block_numbers[i]]])
  /\ ~ChunkRaises(i)

Positions == [i \in 1..Len(orch.block_numbers) |-> i]

\* What the requested numbers and the endpoint's answers determine.
ExpectedBlocks ==
  LET idx == SelectSeq(Positions, LAMBDA i : YieldsBlock(i)) IN
  [j \in 1..Len(idx) |->
     BlockRecord(orch.block_numbers[idx[j]],
                 srv.block[srv.hash[orch.block_numbers[idx[j]]]])]

ExpectedEvents ==
  LET idx == SelectSeq(Positions, LAMBDA i : YieldsEvent(i)) IN
  [j \in 1..Len(idx) |->
     EventRecord(orch.block_numbers[idx[j]],
                 srv.ev[srv.hash[orch.block_numbers[idx[j]]]])]

StrictlyAscending(records) ==
  \A i, j \in 1..Len(records) :
    i < j => records[i].blockNumber < records[j].blockNumber

\* C5: over an endpoint whose answer to a request is fixed, the block list
\* and the event list that main writes are each sorted by block number and
\* are the lists the requested numbers and the answers determine, whatever
\* the order in which the chunks completed and however the workers
\* interleaved.
C5_SortedDeterministicOutput ==
  orch.pc = "done" =>
    /\ StrictlyAscending(orch.out_blocks)
    /\ StrictlyAscending(orch.out_events)
    /\ orch.out_blocks = ExpectedBlocks
    /\ orch.out_events = ExpectedEvents

\* The later chunk was collected first, so the gathered blocks are out of
\* order, and some number has an event record without a block record.
C5_Witness ==
  /\ orch.pc = "done"
  /\ ~StrictlyAscending(orch.all_blocks)
  /\ Len(orch.out_events) > Len(orch.out_blocks)
  /\ orch.out_blocks = ExpectedBlocks

\* C11: a get_block_hash(n) that starts after a get_block_hash(n) has handed
\* a hash h to its caller returns h and issues no network call.
C11_LaterCallReturnsSameHash ==
  \A t \in Threads :
    (th[t].kind = "hash" /\ th[t].pc = "done" /\ th[t].prior # None) =>
      /\ th[t].retv = th[t].prior
      /\ th[t].ncalls = 0

\* The records of a returned list, as a set.
RecordSet(records) == {records[i] : i \in 1..Len(records)}

\* The attempts on block n fail: its block is answered without the "block"
\* member, so line 307 raises.
Fails(n) == Truthy(srv.hash[n]) /\ srv.block[srv.hash[n]] = "badblk"

\* C12: over an endpoint that answers every call, and when no attempt fails,
\* the block records and the event records returned for two disjoint lists
\* B1 and B2 are together the records returned for the list of all their
\* numbers, whatever the order of the three calls and whatever the cache held
\* when each started.
C12_PartitionInvariance ==
  \A b1, b2, all \in DOMAIN hist.out :
    (/\ Range(b1) \cap Range(b2) = {}
     /\ Range(all) = Range(b1) \cup Range(b2)
     /\ \A n \in Range(all) : ~Fails(n)) =>
      /\ RecordSet(hist.out[all].blocks) =
           RecordSet(hist.out[b1].blocks) \cup RecordSet(hist.out[b2].blocks)
      /\ RecordSet(hist.out[all].events) =
           RecordSet(hist.out[b1].events) \cup RecordSet(hist.out[b2].events)

\* The three calls returned; both numbers have a block, which the call on
\* each part and the call on the whole list returned.
C12_Witness ==
  /\ hist.mode = "part"
  /\ DOMAIN hist.out = hist.lists
  /\ \E all \in hist.lists :
       /\ Len(all) = 2
       /\ Len(hist.out[all].blocks) = 2
       /\ \A b \in hist.lists \ {all} : Len(hist.out[b].blocks) = 1

\* C13: when the raw call of a non-empty batch returns None, or an object
\* instead of an array, batch_call returns len(calls) entries, all absent.
C13_WholeBatchFailureAllAbsent ==
  (bc.pc # "start" /\ bc.calls # <<>> /\ bc.raw.t \in {"none", "dict"}) =>
    /\ bc.pc = "returned"
    /\ bc.net = 1
    /\ Len(bc.out) = Len(bc.calls)
    /\ \A i \in 1..Len(bc.out) : bc.out[i] = None

\* Two calls answered by one error object.
C13_Witness ==
  /\ bc.pc = "returned"
  /\ Len(bc.calls) = 2
  /\ bc.raw = RawDict
  /\ bc.out = <<None, None>>

\* The probe answer is an object with a result field.
AnswersProbe(raw) == raw.t = "dict" /\ raw.hasresult

\* C14: construction pins the first candidate whose probe answer is an
\* object with a result field and raises when there is none; afterwards the
\* pinned endpoint never changes and every call is sent to it.
C14_FirstWorkingEndpointPinned ==
  /\ ep.pc = "ready" =>
       /\ AnswersProbe(ep.answers[ep.pinned + 1])
       /\ \A j \in 1..ep.pinned : ~AnswersProbe(ep.answers[j])
       /\ ep.current_idx = ep.pinned
       /\ ep.sentto \subseteq {ep.endpoints[ep.pinned + 1]}
  /\ ep.pc = "failed" =>
       \A j \in 1..Len(ep.endpoints) : ~AnswersProbe(ep.answers[j])

\* C14, second half alone: once pinned, the endpoint stays and gets every
\* call, failed calls included.
C14_PinnedEndpointStable ==
  ep.pc = "ready" =>
    /\ ep.current_idx = ep.pinned
    /\ ep.sentto \subseteq {ep.endpoints[ep.pinned + 1]}

\* The second candidate was pinned and got two calls, one of which failed.
C14_Witness ==
  /\ ep.pc = "ready" /\ ep.pinned = 1
  /\ ep.sends = 2 /\ ep.failed
  /\ ep.sentto = {"e2"}

\* The latest _raw_call ran into an exception inside its try block.
LastRaisedInside ==
  \/ conn.last.out.exc
  \/ conn.last.out.body.kind = "notutf8"
  \/ conn.last.out.status = 200 /\ conn.last.out.body.kind = "notjson"

\* C15: a connection is used only by the thread that created it; the
\* connections the threads hold are all different; a call reuses the
\* connection the thread holds for the host and creates one only when it
\* holds none; after an exception in _raw_call the thread holds a new
\* connection for the host, otherwise the one it used.
C15_ConnectionsThreadLocal ==
  /\ \A id \in 1..conn.made : conn.users[id] \subseteq {conn.owner[id]}
  /\ \A t \in Threads : \A h \in DOMAIN conn.connections[t] :
       /\ conn.owner[conn.connections[t][h]] = t
       /\ \A u \in Threads : \A g \in DOMAIN conn.connections[u] :
            (u # t \/ g # h) => conn.connections[u][g] # conn.connections[t][h]
  /\ conn.last.ret # "none" =>
       LET now == conn.connections[conn.last.t][conn.last.host] IN
       /\ conn.last.had # 0 => conn.last.used = conn.last.had
       /\ conn.last.had = 0 => conn.last.used = conn.last.made0 + 1
       /\ LastRaisedInside => (now > conn.last.used /\ now = conn.made)
       /\ ~LastRaisedInside => now = conn.last.used

\* Both threads hold a connection to host1, and a third connection was
\* made to replace one after an exception.
C15_Witness ==
  /\ \A t \in Threads : "host1" \in DOMAIN conn.connections[t]
  /\ conn.connections[1]["host1"] # conn.connections[2]["host1"]
  /\ conn.made = 3
  /\ conn.last.ret = "absent" /\ conn.last.out.exc

\* C16: _raw_call never raises; a non-2xx status, an error object that
\* mentions "rate", "limit" or "too many", an undecodable body and a
\* transport exception each give absent; the decoded response is returned
\* only for a successful status with a decodable body that is no such error.
C16_RawCallNeverRaises ==
  conn.last.ret # "none" =>
    LET out == conn.last.out
        soft == \/ out.exc
                \/ out.status \notin 200..299
                \/ out.body.kind \in {"notutf8", "notjson"}
                \/ /\ out.body.kind = "error"
                   /\ out.body.error \in {"rate limit exceeded",
                                          "LIMIT reached", "Too Many Requests"}
    IN /\ conn.last.ret \in {"absent", "decoded"}
       /\ soft => conn.last.ret = "absent"
       /\ conn.last.ret = "decoded" =>
            (~soft /\ conn.last.value = Decoded(out.body))

\* An error object that is no rate limit is handed back decoded.
C16_Witness ==
  /\ conn.last.ret = "decoded"
  /\ conn.last.out.body = [kind |-> "error", error |-> "Invalid Request"]
  /\ conn.last.value = RawDict

\* The chunks put one after the other.
RECURSIVE Flatten(_)
Flatten(chunks) ==
  IF chunks = <<>> THEN <<>> ELSE Head(chunks) \o Flatten(Tail(chunks))

\* C17: the submitted chunks are consecutive pieces of the requested list:
\* none is empty, all but the last hold BATCH_SIZE numbers, the last at most
\* BATCH_SIZE, and put one after the other they are the requested list.
C17_ChunksPartitionInput ==
  orch.pc \in {"collect", "done"} =>
    /\ Flatten(orch.batches) = orch.block_numbers
    /\ Len(orch.fut) = Len(orch.batches)
    /\ \A j \in 1..Len(orch.batches) :
         /\ orch.batches[j] # <<>>
         /\ Len(orch.batches[j]) <= BATCH_SIZE
         /\ j < Len(orch.batches) => Len(orch.batches[j]) = BATCH_SIZE

\* Five numbers: a full chunk and a chunk of one, both handed to workers.
C17_Witness ==
  /\ orch.pc = "collect"
  /\ Len(orch.block_numbers) = BATCH_SIZE + 1
  /\ Len(orch.batches) = 2
  /\ Len(orch.batches[1]) = BATCH_SIZE /\ Len(orch.batches[2]) = 1
  /\ \A j \in 1..2 : orch.fut[j].st = "running"

\* A list of records has at most one record per block number, and only
\* numbers of nums.
OncePerNumber(records, nums) ==
  /\ \A i, j \in 1..Len(records) :
       records[i].blockNumber = records[j].blockNumber => i = j
  /\ \A i \in 1..Len(records) : records[i].blockNumber \in Range(nums)

\* C18: whatever fails and however often chunks are retried, the gathered
\* and the written lists hold at most one block record and one event record
\* per requested number and none for another number; so do the lists of
\* every attempt and of every chunk's result.
C18_AtMostOneRecordPerNumber ==
  orch.pc # "off" =>
    /\ OncePerNumber(orch.all_blocks, orch.block_numbers)
    /\ OncePerNumber(orch.all_events, orch.block_numbers)
    /\ OncePerNumber(orch.out_blocks, orch.block_numbers)
    /\ OncePerNumber(orch.out_events, orch.block_numbers)
    /\ \A t \in Threads :
         /\ OncePerNumber(th[t].blocks, th[t].nums)
         /\ OncePerNumber(th[t].events, th[t].nums)
         /\ OncePerNumber(th[t].ret.blocks, th[t].nums)
         /\ OncePerNumber(th[t].ret.events, th[t].nums)
    /\ \A j \in 1..Len(orch.fut) :
         /\ OncePerNumber(orch.fut[j].blocks, orch.batches[j])
         /\ OncePerNumber(orch.fut[j].events, orch.batches[j])

\* The first chunk was retried after an attempt that gave some of its
\* blocks and now returns all four, while the record of the second chunk is
\* gathered already.
C18_Witness ==
  /\ orch.pc = "collect"
  /\ Len(orch.all_blocks) = 1
  /\ \E t \in Threads :
       /\ th[t].pc = "done" /\ th[t].attempt >= 1 /\ ~th[t].prevfail
       /\ Len(th[t].ret.blocks) = BATCH_SIZE

\* Where a worker holds the cache lock: inside a `with` block.
LockPcs == {"ghb_read", "ghb_write", "ghb_ret"}

\* The records of the aggregate that belong to chunk j, in their order.
OfChunk(records, j) ==
  SelectSeq(records, LAMBDA r : r.blockNumber \in Range(orch.batches[j]))

\* C19: under fair scheduling, with every network call returning,
\* fetch_blocks_parallel returns. A worker holds the cache lock only inside
\* a `with` block, never during a network call or a sleep or after its call
\* ended; when the function returns every chunk has run to completion and
\* its result is in the aggregate exactly once.
C19_FetchBlocksParallelTerminates ==
  /\ [](\A t \in Threads : cache_lock = t => th[t].pc \in LockPcs)
  /\ [](orch.pc = "done" =>
          /\ cache_lock = 0
          /\ \A t \in Threads : th[t].pc = "idle"
          /\ orch.completed = Len(orch.batches)
          /\ \A j \in 1..Len(orch.batches) :
               /\ orch.fut[j].st = "collected"
               /\ OfChunk(orch.all_blocks, j) = orch.fut[j].blocks
               /\ OfChunk(orch.all_events, j) = orch.fut[j].events)
  /\ <>(orch.pc = "done")

\* Both chunks of five blocks are gathered and the function has returned all
\* five blocks.
C19_Witness ==
  /\ orch.pc = "done"
  /\ Len(orch.batches) = 2
  /\ Len(orch.all_blocks) = 5

\* The kinds of malformed or short answers of state_call: absent or empty,
\* "0x00", shorter than four characters, not starting with "0x01", a length
\* tag with a character that is no hex digit, data that end before the offset
\* the tag gives.
HexData(result) == From(result.chars, 4)
Tag(result) == Slice(HexData(result), 0, 2)
Success(result) ==
  result.t = "str" /\ StartsWith(result.chars, <<"0", "x", "0", "1">>)
BadTag(result) ==
  /\ Success(result)
  /\ \E i \in 1..Len(Tag(result)) : ~IsHexDigit(Tag(result)[i])
Truncated(result) ==
  /\ Success(result) /\ ~BadTag(result) /\ HexData(result) # <<>>
  /\ Len(HexData(result)) < DataStart(HexNumber(Tag(result)))
Malformed(result) ==
  \/ result = JNone
  \/ result.t = "str" /\ (result.n < 4 \/ ~Success(result))
  \/ BadTag(result)
  \/ Truncated(result)

\* C20: for a malformed or short answer of state_call,
\* get_metadata_at_version returns nothing and does not raise.
C20_MalformedYieldsNoMetadata ==
  (meta.pc = "done" /\ Malformed(meta.result)) =>
    (~meta.raised /\ meta.value = JNone)

\* The call has returned nothing for an answer whose length tag "zz" is no
\* hex number.
C20_Witness ==
  /\ meta.pc = "done"
  /\ Success(meta.result) /\ Tag(meta.result) = <<"z", "z">>
  /\ ~meta.raised /\ meta.value = JNone

====
